---- MODULE Spec2Model ----
(***************************************************************************)
(* A model of the LC-3 virtual machine of src/virtualMachine.c (the most   *)
(* complete revision, lines 180-650): the fetch-execute loop of main, the  *)
(* sixteen arms of its opcode switch, the instruction handlers, extendSign *)
(* and updateFlags.                                                        *)
(*                                                                         *)
(* memory is the array uint16_t memory[65536].  It is kept as the function *)
(* from the addresses of its non-zero cells to their content, which is a   *)
(* canonical representation of the whole array: a cell outside the domain  *)
(* holds 0.  reg is the array reg[R_COUNT], indexed 0..9.                  *)
(***************************************************************************)
EXTENDS Integers, Sequences, FiniteSets, TLC

\* ------------------------------------------------------------------ bounds
ProgLen == 2        \* number of cells of the program image at PC_START
MaxSteps == 4       \* number of loop iterations that are explored
MaxV == 3           \* extendSign inputs: 65535-MaxV..65535 (plus fixed patterns)
MaxField == 2047    \* extendSign inputs: 0..MaxField, every value of an 11-bit field
StrLen == 3         \* number of cells of the string that R0 points at in a trap call

\* ------------------------------------------------------- program constants
MAX_MEMORY == 65536
R_R0 == 0
R_R7 == 7
R_PC == 8
R_COND == 9
R_COUNT == 10

FL_POS == 1
FL_ZRO == 2
FL_NEG == 4

OP_BR == 0
OP_ADD == 1
OP_LD == 2
OP_ST == 3
OP_JSR == 4
OP_AND == 5
OP_LDR == 6
OP_STR == 7
OP_RTI == 8
OP_NOT == 9
OP_LDI == 10
OP_STI == 11
OP_JMP == 12
OP_RES == 13
OP_LEA == 14
OP_TRAP == 15

TRAP_GETC == 32
TRAP_OUT == 33
TRAP_PUTS == 34
TRAP_IN == 35
TRAP_PUTSP == 36
TRAP_HALT == 37

PC_START == 12288

\* out is the sequence of bytes written to stdout, stdin the bytes that
\* getchar() has still to deliver
VARIABLES memory, reg, running, aborted, instruction, steps, ext, out, stdin

vars == <<memory, reg, running, aborted, instruction, steps, ext, out, stdin>>

\* ------------------------------------------------------- 16-bit arithmetic
RECURSIVE BitAnd(_, _)
BitAnd(a, b) ==
    IF a = 0 \/ b = 0 THEN 0
    ELSE (a % 2) * (b % 2) + 2 * BitAnd(a \div 2, b \div 2)

RECURSIVE BitOr(_, _)
BitOr(a, b) ==
    IF a = 0 THEN b
    ELSE IF b = 0 THEN a
    ELSE (IF a % 2 = 1 \/ b % 2 = 1 THEN 1 ELSE 0) + 2 * BitOr(a \div 2, b \div 2)

Shr(x, k) == x \div (2 ^ k)

\* conversion of an int result to uint16_t
Word16(x) == x % MAX_MEMORY

Word == 0 .. (MAX_MEMORY - 1)

\* ------------------------------------------------------------------ memory
MemAt(m, address) == IF address \in DOMAIN m THEN m[address] ELSE 0

memRead(address) == MemAt(memory, address)

\* the content of memory after memWrite(addr, val)
memWrite(addr, val) ==
    IF val = 0
    THEN [a \in (DOMAIN memory) \ {addr} |-> memory[a]]
    ELSE [a \in (DOMAIN memory) \cup {addr} |-> IF a = addr THEN val ELSE memory[a]]

\* ------------------------------------------------------------- extendSign
\* 0xFFFF is an int: 0xFFFF << bitCount is undefined when the product is
\* not representable in a 32-bit int, i.e. exceeds 2147483647 (bitCount = 16);
\* any 16-bit result may follow.
\* the sign tested one bit too high
extendSignOutcomes_offbyone(bits, bitCount) ==
    IF BitAnd(Shr(bits, bitCount), 1) # 0
    THEN IF 2 ^ bitCount > 2147483647 \div 65535
         THEN Word
         ELSE {Word16(BitOr(bits, 65535 * (2 ^ bitCount)))}
    ELSE {bits}

extendSignOutcomes(bits, bitCount) ==
    IF BitAnd(Shr(bits, bitCount - 1), 1) # 0
    THEN IF 2 ^ bitCount > 2147483647 \div 65535
         THEN Word
         ELSE {Word16(BitOr(bits, 65535 * (2 ^ bitCount)))}
    ELSE {bits}

\* The handlers call extendSign with bitCount 5, 6, 9 and 11 only, where
\* the outcome is unique.
extendSign(bits, bitCount) == CHOOSE r \in extendSignOutcomes(bits, bitCount) : TRUE

\* ------------------------------------------------------------ updateFlags
updateFlags_bit14(r, regMarker) ==
    IF Shr(r[regMarker], 14) # 0 THEN [r EXCEPT ![R_COND] = FL_NEG]
    ELSE IF r[regMarker] = 0 THEN [r EXCEPT ![R_COND] = FL_ZRO]
    ELSE [r EXCEPT ![R_COND] = FL_POS]

updateFlags_nozero(r, regMarker) ==
    IF Shr(r[regMarker], 15) # 0 THEN [r EXCEPT ![R_COND] = FL_NEG]
    ELSE IF r[regMarker] = 0 THEN [r EXCEPT ![R_COND] = 0]
    ELSE [r EXCEPT ![R_COND] = FL_POS]

updateFlags(r, regMarker) ==
    IF Shr(r[regMarker], 15) # 0 THEN [r EXCEPT ![R_COND] = FL_NEG]
    ELSE IF r[regMarker] = 0 THEN [r EXCEPT ![R_COND] = FL_ZRO]
    ELSE [r EXCEPT ![R_COND] = FL_POS]

\* --------------------------------------------------- instruction handlers
\* Each handler takes the register file r as it is after the fetch (PC
\* already incremented) and yields the register file, or the memory, that
\* it leaves behind.
branch_always(r, ins) ==
    LET pcOffset == extendSign(BitAnd(ins, 511), 9)
    IN  [r EXCEPT ![R_PC] = Word16(r[R_PC] + pcOffset)]

branch(r, ins) ==
    LET conditionFlag == BitAnd(Shr(ins, 9), 7)
    IN  IF BitAnd(conditionFlag, r[R_COND]) # 0
        THEN LET pcOffset == extendSign(BitAnd(ins, 511), 9)
             IN  [r EXCEPT ![R_PC] = Word16(r[R_PC] + pcOffset)]
        ELSE r

add_noext(r, ins) ==
    LET destReg == BitAnd(Shr(ins, 9), 7)
        immFlag == BitAnd(Shr(ins, 5), 1)
        srcReg1 == BitAnd(Shr(ins, 6), 7)
    IN  IF immFlag = 0
        THEN LET srcReg2 == BitAnd(ins, 7)
             IN  updateFlags([r EXCEPT ![destReg] = Word16(r[srcReg1] + r[srcReg2])], destReg)
        ELSE LET imm5 == BitAnd(ins, 31)
             IN  updateFlags([r EXCEPT ![destReg] = Word16(r[srcReg1] + imm5)], destReg)

add(r, ins) ==
    LET destReg == BitAnd(Shr(ins, 9), 7)
        immFlag == BitAnd(Shr(ins, 5), 1)
        srcReg1 == BitAnd(Shr(ins, 6), 7)
    IN  IF immFlag = 0
        THEN LET srcReg2 == BitAnd(ins, 7)
             IN  updateFlags([r EXCEPT ![destReg] = Word16(r[srcReg1] + r[srcReg2])], destReg)
        ELSE LET imm5 == extendSign(BitAnd(ins, 31), 5)
             IN  updateFlags([r EXCEPT ![destReg] = Word16(r[srcReg1] + imm5)], destReg)

load(r, ins) ==
    LET destReg == BitAnd(Shr(ins, 9), 7)
        pcOffset == extendSign(BitAnd(ins, 511), 9)
    IN  updateFlags([r EXCEPT ![destReg] = memRead(Word16(r[R_PC] + pcOffset))], destReg)

store(r, ins) ==
    LET srcReg == BitAnd(Shr(ins, 9), 7)
        pcOffset == extendSign(BitAnd(ins, 511), 9)
    IN  memWrite(Word16(r[R_PC] + pcOffset), r[srcReg])

\* the local r7 takes the PC and is never copied to reg[R_R7]
jumpToSubroutine(r, ins) ==
    LET r7 == r[R_PC]
        addrFlag == BitAnd(Shr(ins, 11), 1)
    IN  IF addrFlag = 0
        THEN LET baseReg == BitAnd(Shr(ins, 6), 7)
             IN  [r EXCEPT ![R_PC] = r[baseReg]]
        ELSE LET pcOffset == extendSign(BitAnd(ins, 2047), 11)
             IN  [r EXCEPT ![R_PC] = Word16(r[R_PC] + pcOffset)]

bitwiseAnd(r, ins) ==
    LET destReg == BitAnd(Shr(ins, 9), 7)
        srcReg1 == BitAnd(Shr(ins, 6), 7)
        immFlag == BitAnd(Shr(ins, 5), 1)
    IN  IF immFlag = 0
        THEN LET srcReg2 == BitAnd(ins, 7)
             IN  updateFlags([r EXCEPT ![destReg] = Word16(r[srcReg1] + r[srcReg2])], destReg)
        ELSE LET imm5 == extendSign(BitAnd(ins, 31), 5)
             IN  updateFlags([r EXCEPT ![destReg] = Word16(r[srcReg1] + imm5)], destReg)

loadBaseOffset(r, ins) ==
    LET destReg == BitAnd(Shr(ins, 9), 7)
        baseReg == BitAnd(Shr(ins, 6), 7)
        offset == extendSign(BitAnd(ins, 63), 6)
    IN  updateFlags([r EXCEPT ![destReg] = memRead(Word16(r[baseReg] + offset))], destReg)

\* the address passed on as the int sum, not converted to uint16_t
storeBaseOffset_nowrap(r, ins) ==
    LET srcReg == BitAnd(Shr(ins, 9), 7)
        baseReg == BitAnd(Shr(ins, 6), 7)
        offset == extendSign(BitAnd(ins, 63), 6)
    IN  memWrite(r[baseReg] + offset, r[srcReg])

storeBaseOffset(r, ins) ==
    LET srcReg == BitAnd(Shr(ins, 9), 7)
        baseReg == BitAnd(Shr(ins, 6), 7)
        offset == extendSign(BitAnd(ins, 63), 6)
    IN  memWrite(Word16(r[baseReg] + offset), r[srcReg])

bitwiseNot(r, ins) ==
    LET destReg == BitAnd(Shr(ins, 9), 7)
        srcReg == BitAnd(Shr(ins, 6), 7)
    IN  updateFlags([r EXCEPT ![destReg] = 65535 - r[srcReg]], destReg)

loadIndirect_single(r, ins) ==
    LET destReg == BitAnd(Shr(ins, 9), 7)
        pcOffset == extendSign(BitAnd(ins, 511), 9)
    IN  updateFlags([r EXCEPT ![destReg] = memRead(Word16(r[R_PC] + pcOffset))], destReg)

loadIndirect(r, ins) ==
    LET destReg == BitAnd(Shr(ins, 9), 7)
        pcOffset == extendSign(BitAnd(ins, 511), 9)
    IN  updateFlags([r EXCEPT ![destReg] = memRead(memRead(Word16(r[R_PC] + pcOffset)))], destReg)

storeIndirect(r, ins) ==
    LET srcReg == BitAnd(Shr(ins, 9), 7)
        pcOffset == extendSign(BitAnd(ins, 511), 9)
    IN  memWrite(Word16(r[R_PC] + pcOffset), r[srcReg])

jump_flags(r, ins) ==
    LET baseReg == BitAnd(Shr(ins, 6), 7)
    IN  updateFlags([r EXCEPT ![R_PC] = r[baseReg]], baseReg)

jump(r, ins) ==
    LET baseReg == BitAnd(Shr(ins, 6), 7)
    IN  [r EXCEPT ![R_PC] = r[baseReg]]

loadEffectiveAddr(r, ins) ==
    LET destReg == BitAnd(Shr(ins, 9), 7)
        pcOffset == extendSign(BitAnd(ins, 511), 9)
    IN  updateFlags([r EXCEPT ![destReg] = Word16(r[R_PC] + pcOffset)], destReg)

\* ------------------------------------------------------- the program image
\* The words an image cell may hold: at least one word of every opcode, both
\* addressing modes of ADD, AND and JSR, offsets of both signs, taken and
\* untaken branches, defined and undefined trap vectors.
ImageWords ==
    { 0,        \* BR (no condition selected): never taken
      1025,     \* 0x0401  BRz   #1
      2049,     \* 0x0801  BRn   #1
      4094,     \* 0x0FFE  BRnzp #-2
      4707,     \* 0x1263  ADD R1, R1, #3
      4669,     \* 0x123D  ADD R1, R0, #-3
      4642,     \* 0x1222  ADD R1, R0, #2
      4733,     \* 0x127D  ADD R1, R1, #-3
      5185,     \* 0x1441  ADD R2, R1, R1
      8704,     \* 0x2200  LD  R1, #0
      12288,    \* 0x3000  ST  R0, #0
      12800,    \* 0x3200  ST  R1, #0
      18432,    \* 0x4800  JSR #0
      18433,    \* 0x4801  JSR #1
      16448,    \* 0x4040  JSRR R1
      21605,    \* 0x5465  AND R2, R1, #5
      21055,    \* 0x523F  AND R1, R0, #-1
      21569,    \* 0x5441  AND R2, R1, R1
      25727,    \* 0x647F  LDR R2, R1, #-1
      25665,    \* 0x6441  LDR R2, R1, #1
      29249,    \* 0x7241  STR R1, R1, #1
      32768,    \* 0x8000  RTI
      37439,    \* 0x923F  NOT R1, R0
      41472,    \* 0xA200  LDI R1, #0
      45568,    \* 0xB200  STI R1, #0
      49600,    \* 0xC1C0  JMP R7
      49216,    \* 0xC040  JMP R1
      53248,    \* 0xD000  RES
      57856,    \* 0xE200  LEA R1, #0
      58367,    \* 0xE3FF  LEA R1, #-1
      61472,    \* 0xF020  TRAP GETC
      61474,    \* 0xF022  TRAP PUTS
      61477,    \* 0xF025  TRAP HALT
      61478 }   \* 0xF026  TRAP with an undefined vector

\* memory with the image placed at PC_START, every other cell 0
LoadImage(image) ==
    [a \in {PC_START + i : i \in {j \in DOMAIN image : image[j] # 0}} |-> image[a - PC_START]]

\* no call of extendSign is in progress in the machine's own run
NoExt == [v |-> 0, bitCount |-> 1, result |-> 0, returned |-> FALSE]

\* reg[R_COND] left as the zero that a global array starts with
Init_nocond ==
    /\ \E image \in [0 .. (ProgLen - 1) -> ImageWords] : memory = LoadImage(image)
    /\ reg = [i \in 0 .. (R_COUNT - 1) |-> IF i = R_PC THEN PC_START ELSE 0]
    /\ running = 1
    /\ aborted = FALSE
    /\ instruction = 0
    /\ steps = 0
    /\ ext = NoExt
    /\ out = <<>>
    /\ stdin = <<>>

\* ------------------------------------------------------------ the machine
\* main up to the first evaluation of  while (running)
Init ==
    /\ \E image \in [0 .. (ProgLen - 1) -> ImageWords] : memory = LoadImage(image)
    /\ reg = [i \in 0 .. (R_COUNT - 1) |->
                IF i = R_COND THEN FL_ZRO ELSE IF i = R_PC THEN PC_START ELSE 0]
    /\ running = 1
    /\ aborted = FALSE
    /\ instruction = 0
    /\ steps = 0
    /\ ext = NoExt
    /\ out = <<>>
    /\ stdin = <<>>

\* while (running), the process not yet ended by abort()
CanFetch == running # 0 /\ ~aborted /\ steps < MaxSteps

\* instruction = memRead(reg[R_PC]++)
Fetched == memRead(reg[R_PC])

\* the increment done in int and never converted back to uint16_t
AfterFetch_nowrap == [reg EXCEPT ![R_PC] = reg[R_PC] + 1]

AfterFetch == [reg EXCEPT ![R_PC] = Word16(reg[R_PC] + 1)]

opCode(ins) == Shr(ins, 12)

\* the fetch of a word of opcode op
Fetch(op) ==
    /\ CanFetch
    /\ opCode(Fetched) = op
    /\ instruction' = Fetched
    /\ steps' = steps + 1
    /\ UNCHANGED <<ext, out, stdin>>

CaseBR ==
    /\ Fetch(OP_BR)
    /\ reg' = branch(AfterFetch, Fetched)
    /\ UNCHANGED <<memory, running, aborted>>

CaseADD ==
    /\ Fetch(OP_ADD)
    /\ reg' = add(AfterFetch, Fetched)
    /\ UNCHANGED <<memory, running, aborted>>

CaseLD ==
    /\ Fetch(OP_LD)
    /\ reg' = load(AfterFetch, Fetched)
    /\ UNCHANGED <<memory, running, aborted>>

\* the arm as the older revisions have it: empty
CaseST_nowrite ==
    /\ Fetch(OP_ST)
    /\ reg' = AfterFetch
    /\ UNCHANGED <<memory, running, aborted>>

CaseST ==
    /\ Fetch(OP_ST)
    /\ reg' = AfterFetch
    /\ memory' = store(AfterFetch, Fetched)
    /\ UNCHANGED <<running, aborted>>

CaseJSR ==
    /\ Fetch(OP_JSR)
    /\ reg' = jumpToSubroutine(AfterFetch, Fetched)
    /\ UNCHANGED <<memory, running, aborted>>

CaseAND ==
    /\ Fetch(OP_AND)
    /\ reg' = bitwiseAnd(AfterFetch, Fetched)
    /\ UNCHANGED <<memory, running, aborted>>

CaseLDR ==
    /\ Fetch(OP_LDR)
    /\ reg' = loadBaseOffset(AfterFetch, Fetched)
    /\ UNCHANGED <<memory, running, aborted>>

CaseSTR ==
    /\ Fetch(OP_STR)
    /\ reg' = AfterFetch
    /\ memory' = storeBaseOffset(AfterFetch, Fetched)
    /\ UNCHANGED <<running, aborted>>

\* the older revisions leave this arm empty
CaseRTI_empty ==
    /\ Fetch(OP_RTI)
    /\ reg' = AfterFetch
    /\ UNCHANGED <<memory, running, aborted>>

\* abort() ends the process
CaseRTI ==
    /\ Fetch(OP_RTI)
    /\ reg' = AfterFetch
    /\ aborted' = TRUE
    /\ UNCHANGED <<memory, running>>

CaseNOT ==
    /\ Fetch(OP_NOT)
    /\ reg' = bitwiseNot(AfterFetch, Fetched)
    /\ UNCHANGED <<memory, running, aborted>>

\* the arm calling the handler of the arm below it
CaseLDI_store ==
    /\ Fetch(OP_LDI)
    /\ reg' = AfterFetch
    /\ memory' = storeIndirect(AfterFetch, Fetched)
    /\ UNCHANGED <<running, aborted>>

CaseLDI ==
    /\ Fetch(OP_LDI)
    /\ reg' = loadIndirect(AfterFetch, Fetched)
    /\ UNCHANGED <<memory, running, aborted>>

CaseSTI ==
    /\ Fetch(OP_STI)
    /\ reg' = AfterFetch
    /\ memory' = storeIndirect(AfterFetch, Fetched)
    /\ UNCHANGED <<running, aborted>>

CaseJMP ==
    /\ Fetch(OP_JMP)
    /\ reg' = jump(AfterFetch, Fetched)
    /\ UNCHANGED <<memory, running, aborted>>

CaseRES ==
    /\ Fetch(OP_RES)
    /\ reg' = AfterFetch
    /\ aborted' = TRUE
    /\ UNCHANGED <<memory, running>>

CaseLEA ==
    /\ Fetch(OP_LEA)
    /\ reg' = loadEffectiveAddr(AfterFetch, Fetched)
    /\ UNCHANGED <<memory, running, aborted>>

CaseTRAP_halts ==
    /\ Fetch(OP_TRAP)
    /\ reg' = AfterFetch
    /\ running' = 0
    /\ UNCHANGED <<memory, aborted>>

\* the arm holds a comment and a break: executeTrapCode is not called
CaseTRAP ==
    /\ Fetch(OP_TRAP)
    /\ reg' = AfterFetch
    /\ UNCHANGED <<memory, running, aborted>>

Next ==
    \/ CaseBR
    \/ CaseADD
    \/ CaseLD
    \/ CaseST
    \/ CaseJSR
    \/ CaseAND
    \/ CaseLDR
    \/ CaseSTR
    \/ CaseRTI
    \/ CaseNOT
    \/ CaseLDI
    \/ CaseSTI
    \/ CaseJMP
    \/ CaseRES
    \/ CaseLEA
    \/ CaseTRAP

Spec == Init /\ [][Next]_vars

\* ------------------------------------------- extendSign as a pure function
ExtInputs ==
    (0 .. MaxField) \cup {65535 - x : x \in 0 .. MaxV}
        \cup {2 ^ k : k \in 0 .. 15} \cup {21845, 43690}

InitExt ==
    /\ memory = LoadImage(<<>>)
    /\ reg = [i \in 0 .. (R_COUNT - 1) |->
                IF i = R_COND THEN FL_ZRO ELSE IF i = R_PC THEN PC_START ELSE 0]
    /\ running = 1
    /\ aborted = FALSE
    /\ instruction = 0
    /\ steps = 0
    /\ out = <<>>
    /\ stdin = <<>>
    /\ \E v \in ExtInputs, n \in 1 .. 16 :
          ext = [v |-> v, bitCount |-> n, result |-> 0, returned |-> FALSE]

\* result = extendSign(v & ((1 << bitCount) - 1), bitCount)
CallExtendSign ==
    /\ ~ext.returned
    /\ \E r \in extendSignOutcomes(ext.v % (2 ^ ext.bitCount), ext.bitCount) :
          ext' = [ext EXCEPT !.result = r, !.returned = TRUE]
    /\ UNCHANGED <<memory, reg, running, aborted, instruction, steps, out, stdin>>

NextExt == CallExtendSign

SpecExt == InitExt /\ [][NextExt]_vars

\* ------------------------------------------------------ the trap routines
\* main never calls executeTrapCode (see CaseTRAP), so the dispatcher and its
\* routines are run on their own: SpecTrap starts at a call
\* executeTrapCode(instruction) and takes the one step that the call makes.
\* uint16_t trapVect = instruction & 0xFF
TrapVect(ins) == BitAnd(ins, 255)

\* getchar(): the next byte of stdin, EOF (-1) at the end of input
getchar == IF stdin = <<>> THEN -1 ELSE Head(stdin)

\* stdin after getchar()
getcharRest == IF stdin = <<>> THEN stdin ELSE Tail(stdin)

\* putchar(c) writes (unsigned char)c
putchar(o, c) == Append(o, c % 256)

\* reg[R_R0] = (uint16_t)getchar(); updateFlags(R_R0)
trapGetc(r) == updateFlags([r EXCEPT ![R_R0] = Word16(getchar)], R_R0)

trapOut(o, r) == putchar(o, r[R_R0])

\* every cell from address c up to the end of the array is non-zero: the
\* pointer of trapPuts leaves the array
RunsOffEnd(c) ==
    IF MAX_MEMORY - c > Cardinality(DOMAIN memory)
    THEN FALSE
    ELSE \A a \in c .. (MAX_MEMORY - 1) : a \in DOMAIN memory

\* one more cell is put out, where the loop of trapPuts stops at the first
RECURSIVE trapPuts_inclusive(_, _)
trapPuts_inclusive(o, c) ==
    IF c >= MAX_MEMORY THEN o
    ELSE IF memRead(c) = 0 THEN putchar(o, memRead(c))
    ELSE trapPuts_inclusive(putchar(o, memRead(c)), c + 1)

\* while (*c) { putchar((char)*c); c++; }  from c = memory + reg[R_R0],
\* as far as the pointer stays inside the array
RECURSIVE trapPuts(_, _)
trapPuts(o, c) ==
    IF c >= MAX_MEMORY THEN o
    ELSE IF memRead(c) = 0 THEN o
    ELSE trapPuts(putchar(o, memRead(c)), c + 1)

\* what a read past memory[65535] may lead to: the process is killed, or the
\* loop finds some bytes there and then a zero
PastTheEnd == {<<>>, <<1>>, <<255>>, <<65, 255>>}

RECURSIVE putAll(_, _)
putAll(o, bytes) == IF bytes = <<>> THEN o ELSE putAll(putchar(o, Head(bytes)), Tail(bytes))

TrapWords == {61472, 61473, 61474, 61475, 61476, 61477, 61478, 61695}

StrCells == {0, 72, 73, 256, 18760}

StrBases == {16384, MAX_MEMORY - StrLen}

StdinChoices == {<<>>, <<0>>, <<65>>, <<255>>}

\* memory with the cells str at base .. base + Len - 1, every other cell 0
StringAt(base, str) ==
    [a \in {base + i : i \in {j \in DOMAIN str : str[j] # 0}} |-> str[a - base]]

\* the state at a call executeTrapCode(instruction) made after a fetch
InitTrap ==
    /\ \E base \in StrBases, str \in [0 .. (StrLen - 1) -> StrCells] :
          /\ memory = StringAt(base, str)
          /\ reg = [i \in 0 .. (R_COUNT - 1) |->
                      IF i = R_COND THEN FL_ZRO
                      ELSE IF i = R_PC THEN PC_START + 1
                      ELSE IF i = R_R0 THEN base ELSE 0]
    /\ instruction \in TrapWords
    /\ stdin \in StdinChoices
    /\ out = <<>>
    /\ running = 1
    /\ aborted = FALSE
    /\ steps = 0
    /\ ext = NoExt

\* reg[R_R7] = reg[R_PC]
Linked == [reg EXCEPT ![R_R7] = reg[R_PC]]

\* the call of executeTrapCode with a vector among vects
executeTrapCode(vects) ==
    /\ steps = 0
    /\ ~aborted
    /\ TrapVect(instruction) \in vects
    /\ steps' = 1
    /\ UNCHANGED <<instruction, running, ext>>

TrapGETC ==
    /\ executeTrapCode({TRAP_GETC})
    /\ reg' = trapGetc(Linked)
    /\ stdin' = getcharRest
    /\ UNCHANGED <<memory, out, aborted>>

TrapOUT ==
    /\ executeTrapCode({TRAP_OUT})
    /\ reg' = Linked
    /\ out' = trapOut(out, Linked)
    /\ UNCHANGED <<memory, stdin, aborted>>

TrapPUTS ==
    /\ executeTrapCode({TRAP_PUTS})
    /\ reg' = Linked
    /\ IF RunsOffEnd(reg[R_R0])
       THEN \/ /\ aborted' = TRUE
               /\ out' = trapPuts(out, reg[R_R0])
            \/ /\ \E bytes \in PastTheEnd : out' = putAll(trapPuts(out, reg[R_R0]), bytes)
               /\ UNCHANGED aborted
       ELSE /\ out' = trapPuts(out, reg[R_R0])
            /\ UNCHANGED aborted
    /\ UNCHANGED <<memory, stdin>>

\* case TRAP_IN, TRAP_PUTSP, TRAP_HALT: a comment and a break
TrapIN ==
    /\ executeTrapCode({TRAP_IN})
    /\ reg' = Linked
    /\ UNCHANGED <<memory, out, stdin, aborted>>

TrapPUTSP ==
    /\ executeTrapCode({TRAP_PUTSP})
    /\ reg' = Linked
    /\ UNCHANGED <<memory, out, stdin, aborted>>

TrapHALT ==
    /\ executeTrapCode({TRAP_HALT})
    /\ reg' = Linked
    /\ UNCHANGED <<memory, out, stdin, aborted>>

\* default: abort()
TrapDefault ==
    /\ executeTrapCode((0 .. 255) \ (TRAP_GETC .. TRAP_HALT))
    /\ reg' = Linked
    /\ aborted' = TRUE
    /\ UNCHANGED <<memory, out, stdin>>

NextTrap ==
    \/ TrapGETC
    \/ TrapOUT
    \/ TrapPUTS
    \/ TrapIN
    \/ TrapPUTSP
    \/ TrapHALT
    \/ TrapDefault

SpecTrap == InitTrap /\ [][NextTrap]_vars

\* ================================================================= claims
\* the decoded fields of the word about to be fetched
Dst(ins) == BitAnd(Shr(ins, 9), 7)

Src1(ins) == BitAnd(Shr(ins, 6), 7)

\* the flag that the sign and zero-ness of a 16-bit value call for
FlagOf(v) == IF v >= 32768 THEN FL_NEG ELSE IF v = 0 THEN FL_ZRO ELSE FL_POS

FlagOps == {OP_ADD, OP_AND, OP_NOT, OP_LD, OP_LDI, OP_LDR, OP_LEA}

Stopped == running = 0 \/ aborted

\* C1: the loop iteration that fetches TRAP x25 (HALT) leaves the machine
\* stopped, so that no further instruction is fetched.
C1_HaltStopsLoop ==
    [][(opCode(Fetched) = OP_TRAP /\ TrapVect(Fetched) = TRAP_HALT) => Stopped']_vars

\* C2: the loop iteration that fetches a word of opcode RTI or RES ends the
\* process, and no step is ever taken from a state in which it has ended.
C2_IllegalOpcodeAborts ==
    [][~aborted /\ (opCode(Fetched) \in {OP_RTI, OP_RES} => aborted')]_vars

\* a fault that follows an executed instruction
C2_Witness ==
    aborted /\ steps > 1 /\ opCode(instruction) \in {OP_RTI, OP_RES}

\* C3: the loop iteration that fetches a TRAP whose vector is outside
\* x20..x25 ends the process.
C3_UnknownTrapAborts ==
    [][(opCode(Fetched) = OP_TRAP /\ TrapVect(Fetched) \notin TRAP_GETC .. TRAP_HALT)
          => aborted']_vars

\* C4: AND leaves in dst the bitwise AND of reg[src1] and the second operand
\* (reg[src2], or the sign-extended imm5 when bit 5 is set) and sets the
\* flags from dst.
C4_AndIsBitwiseAnd ==
    [][opCode(Fetched) = OP_AND =>
          LET ins == Fetched
              operand == IF BitAnd(Shr(ins, 5), 1) = 0
                         THEN reg[BitAnd(ins, 7)]
                         ELSE extendSign(BitAnd(ins, 31), 5)
          IN  /\ reg'[Dst(ins)] = BitAnd(reg[Src1(ins)], operand)
              /\ reg'[R_COND] = FlagOf(reg'[Dst(ins)])]_vars

\* C5: STI writes reg[src] to the cell whose address is held in the cell at
\* PC + sign-extend(pcOffset9), PC being the incremented program counter, and
\* leaves that pointer cell as it was unless it is its own target.
C5_StiDoubleIndirection ==
    [][opCode(Fetched) = OP_STI =>
          LET ins == Fetched
              pointer == Word16(reg[R_PC] + 1 + extendSign(BitAnd(ins, 511), 9))
              target == memRead(pointer)
          IN  /\ MemAt(memory', target) = reg[Dst(ins)]
              /\ (target # pointer => MemAt(memory', pointer) = memRead(pointer))]_vars

\* C6: JSR/JSRR leaves the incremented PC in R7, and PC at the incremented
\* PC + sign-extend(pcOffset11) when bit 11 is set, at reg[base] otherwise.
C6_JsrLinksR7 ==
    [][opCode(Fetched) = OP_JSR =>
          LET ins == Fetched
              pc == Word16(reg[R_PC] + 1)
          IN  /\ reg'[R_R7] = pc
              /\ reg'[R_PC] = IF BitAnd(Shr(ins, 11), 1) = 1
                              THEN Word16(pc + extendSign(BitAnd(ins, 2047), 11))
                              ELSE reg[Src1(ins)]]_vars

\* C7: every TRAP executed by the loop leaves the incremented PC in R7.
C7_TrapLinksR7 ==
    [][opCode(Fetched) = OP_TRAP => reg'[R_R7] = Word16(reg[R_PC] + 1)]_vars

\* C8: for every v and every n in 1..16, the low n bits of
\* extendSign(v mod 2^n, n) are v mod 2^n.
C8_ExtendSignRoundTrip ==
    ext.returned => ext.result % (2 ^ ext.bitCount) = ext.v % (2 ^ ext.bitCount)

\* C9: after ADD, AND, NOT, LD, LDI, LDR and LEA the condition register
\* holds the one flag that matches the value left in dst.
C9_FlagsMatchDst ==
    (steps > 0 /\ opCode(instruction) \in FlagOps)
        => reg[R_COND] = FlagOf(reg[Dst(instruction)])

\* a load that brought a word with bit 15 set into dst
C9_Witness ==
    /\ steps > 0
    /\ opCode(instruction) = OP_LDR
    /\ reg[Dst(instruction)] >= 32768
    /\ reg[R_COND] = FL_NEG

\* C10: in every reachable state the condition register holds exactly one of
\* NEGATIVE (4), ZERO (2), POSITIVE (1).
C10_OneFlag == reg[R_COND] \in {FL_NEG, FL_ZRO, FL_POS}

\* the flag has left its initial value and come back to ZERO
C10_Witness ==
    /\ steps > 1
    /\ opCode(instruction) \in FlagOps
    /\ reg[R_COND] = FL_ZRO
    /\ \E i \in 0 .. 7 : reg[i] >= 32768

\* the signed value of an n-bit two's-complement field
SignedField(x, n) == IF x >= 2 ^ (n - 1) THEN x - 2 ^ n ELSE x

\* C11: ST, STI, STR, BR, JMP and JSR/JSRR leave the condition register as
\* it was, whatever the instruction word and the state.
C11_StoresAndJumpsKeepFlags ==
    [][opCode(Fetched) \in {OP_ST, OP_STI, OP_STR, OP_BR, OP_JMP, OP_JSR}
          => reg'[R_COND] = reg[R_COND]]_vars

\* a jump through a register holding 0, taken with the flag at NEGATIVE
C11_Witness ==
    /\ steps > 1
    /\ opCode(instruction) = OP_JMP
    /\ reg[Src1(instruction)] = 0
    /\ reg[R_COND] = FL_NEG

\* C12: ADD leaves (reg[src1] + operand) mod 2^16 in dst, the operand being
\* reg[src2] in register mode and the signed imm5 in immediate mode, with the
\* flag of the result; a sum outside 0..65535 wraps and is no fault.
C12_AddWraps ==
    [][opCode(Fetched) = OP_ADD =>
          LET ins == Fetched
              operand == IF (ins \div 32) % 2 = 0
                         THEN reg[ins % 8]
                         ELSE SignedField(ins % 32, 5)
              sum == (reg[Src1(ins)] + operand + MAX_MEMORY) % MAX_MEMORY
          IN  /\ reg'[Dst(ins)] = sum
              /\ reg'[R_COND] = FlagOf(sum)
              /\ ~aborted'
              /\ running' = running]_vars

\* 2 + imm5 0b11101 has given 65535 with NEGATIVE
C12_Witness ==
    /\ steps = 2
    /\ instruction = 4733
    /\ MemAt(memory, PC_START) = 4642
    /\ reg[1] = 65535
    /\ reg[R_COND] = FL_NEG

\* C13: LDI leaves Memory[Memory[PC + sign-extend(pcOffset9)]] in dst (PC the
\* incremented program counter), sets the flags from dst and leaves memory
\* unchanged.
C13_LdiDoubleIndirection ==
    [][opCode(Fetched) = OP_LDI =>
          LET ins == Fetched
              pointer == (reg[R_PC] + 1 + SignedField(ins % 512, 9) + MAX_MEMORY) % MAX_MEMORY
              value == MemAt(memory, MemAt(memory, pointer))
          IN  /\ reg'[Dst(ins)] = value
              /\ reg'[R_COND] = FlagOf(value)
              /\ memory' = memory]_vars

\* LDI R1, #0 at 0x3000 with the pointer cell 0x3001 holding 0x3000 has
\* read the word at 0x3000, not the pointer
C13_Witness ==
    /\ steps = 1
    /\ instruction = 41472
    /\ MemAt(memory, PC_START + 1) = PC_START
    /\ reg[1] = 41472

\* C14: BR adds sign-extend(pcOffset9) to the incremented PC (mod 2^16) if and
\* only if a flag selected by bits 11:9 (n = 4, z = 2, p = 1) is the one the
\* condition register holds; otherwise PC keeps its incremented value.  The
\* general registers, the flags and memory are unchanged either way.
C14_BranchIffSelected ==
    [][opCode(Fetched) = OP_BR =>
          LET ins == Fetched
              n == (ins \div 2048) % 2 = 1
              z == (ins \div 1024) % 2 = 1
              p == (ins \div 512) % 2 = 1
              taken == \/ n /\ reg[R_COND] = FL_NEG
                       \/ z /\ reg[R_COND] = FL_ZRO
                       \/ p /\ reg[R_COND] = FL_POS
              pc == (reg[R_PC] + 1) % MAX_MEMORY
          IN  /\ reg'[R_PC] = IF taken
                              THEN (pc + SignedField(ins % 512, 9) + MAX_MEMORY) % MAX_MEMORY
                              ELSE pc
              /\ \A i \in (0 .. 7) \cup {R_COND} : reg'[i] = reg[i]
              /\ memory' = memory]_vars

\* a backward branch taken on NEGATIVE: BRnzp #-2 at 0x3001 after a NOT
C14_Witness ==
    /\ steps = 2
    /\ instruction = 4094
    /\ reg[R_COND] = FL_NEG
    /\ reg[R_PC] = PC_START

\* C15: the loop stops only on a HALT trap or on a fault (RTI, RES, a trap
\* vector outside x20..x25): after any other word the loop is still running.
C15_StopsOnlyOnHaltOrFault ==
    [][(/\ opCode(Fetched) \notin {OP_RTI, OP_RES}
        /\ (opCode(Fetched) = OP_TRAP => TrapVect(Fetched) \in TRAP_GETC .. (TRAP_HALT - 1)))
          => ~Stopped']_vars

\* the loop has gone on after a defined trap vector
C15_Witness ==
    /\ steps > 1
    /\ ~Stopped
    /\ opCode(instruction) = OP_TRAP
    /\ TrapVect(instruction) = TRAP_PUTS
    /\ reg[R_PC] = PC_START + 2

\* C16: PUTS puts out, in order, the low byte of each cell from address R0 up
\* to, and not including, the first cell that holds 0, and nothing more.
C16_PutsUpToZeroCell ==
    [][TrapVect(instruction) = TRAP_PUTS =>
          LET first == reg[R_R0]
              last == IF first + Cardinality(DOMAIN memory) < MAX_MEMORY
                      THEN first + Cardinality(DOMAIN memory) ELSE MAX_MEMORY - 1
              zeros == {a \in first .. last : MemAt(memory, a) = 0}
          IN  zeros # {} =>
                LET z == CHOOSE a \in zeros : \A b \in zeros : a <= b
                IN  /\ Len(out') = Len(out) + (z - first)
                    /\ \A i \in 1 .. Len(out) : out'[i] = out[i]
                    /\ \A i \in 1 .. (z - first) :
                          out'[Len(out) + i] = MemAt(memory, first + i - 1) % 256]_vars

\* the cells 0x48, 0x49, 0x00 have given "HI"
C16_Witness ==
    /\ steps = 1
    /\ TrapVect(instruction) = TRAP_PUTS
    /\ MemAt(memory, reg[R_R0]) = 72
    /\ MemAt(memory, reg[R_R0] + 1) = 73
    /\ MemAt(memory, reg[R_R0] + 2) = 0
    /\ out = <<72, 73>>

\* C17: after GETC, R0 holds the character code with its high eight bits 0
\* and the flags are set from R0, hence never NEGATIVE, whatever getchar()
\* returned, its end-of-input value included.
C17_GetcClearsHighBits ==
    [][TrapVect(instruction) = TRAP_GETC =>
          /\ reg'[R_R0] < 256
          /\ stdin # <<>> => reg'[R_R0] = Head(stdin)
          /\ reg'[R_COND] = FlagOf(reg'[R_R0])
          /\ reg'[R_COND] # FL_NEG]_vars

\* C18: the IN trap (vector x23) writes a prompt, reads one character, echoes
\* it, stores it in R0 and sets the flags from R0.
C18_InPromptsReadsEchoes ==
    [][(TrapVect(instruction) = TRAP_IN /\ stdin # <<>>) =>
          /\ Len(out') >= Len(out) + 2
          /\ out'[Len(out')] = Head(stdin)
          /\ stdin' = Tail(stdin)
          /\ reg'[R_R0] = Head(stdin)
          /\ reg'[R_COND] = FlagOf(reg'[R_R0])]_vars

\* the bytes that PUTSP is to put out from address a on
RECURSIVE PackedBytes(_, _)
PackedBytes(m, a) ==
    IF a >= MAX_MEMORY THEN <<>>
    ELSE LET lo == MemAt(m, a) % 256
             hi == MemAt(m, a) \div 256
         IN  IF lo = 0 THEN <<>>
             ELSE IF hi = 0 THEN <<lo>>
             ELSE <<lo, hi>> \o PackedBytes(m, a + 1)

\* C19: the PUTSP trap (vector x24) puts out, for each cell from address R0
\* on, the low byte and then the high byte if it is not 0, and stops at the
\* first zero byte.
C19_PutspPackedBytes ==
    [][TrapVect(instruction) = TRAP_PUTSP =>
          out' = out \o PackedBytes(memory, reg[R_R0])]_vars

\* C20: the machine starts with the condition register at ZERO and PC at
\* 0x3000, and the first word fetched is Memory[0x3000].
C20_StartState ==
    [][steps = 0 =>
          /\ reg[R_COND] = FL_ZRO
          /\ reg[R_PC] = PC_START
          /\ instruction' = MemAt(memory, PC_START)]_vars

\* the first step has executed the LEA found at 0x3000
C20_Witness ==
    /\ steps = 1
    /\ instruction = 57856
    /\ MemAt(memory, PC_START) = 57856
    /\ reg[1] = PC_START + 1

\* C21: PC is in 0..65535 in every state: a fetch increments it modulo
\* 65536 (a fetch at 0xFFFF leaves 0) and BR, JSR and JMP leave a value
\* reduced modulo 65536.
C21_PcIsAWord ==
    [][/\ reg[R_PC] \in 0 .. 65535
       /\ reg'[R_PC] \in 0 .. 65535
       /\ opCode(Fetched) \notin {OP_BR, OP_JSR, OP_JMP}
             => reg'[R_PC] = IF reg[R_PC] = 65535 THEN 0 ELSE reg[R_PC] + 1]_vars

\* NOT R1, R0 and JMP R1 have taken PC to 0xFFFF, and the fetch there to 0
C21_Witness ==
    /\ steps = 3
    /\ instruction = 0
    /\ reg[1] = 65535
    /\ reg[R_PC] = 0

\* the cells in which two memories differ
Differing(m1, m2) == {a \in (DOMAIN m1) \cup (DOMAIN m2) : MemAt(m1, a) # MemAt(m2, a)}

\* C22: BR, ADD, AND, NOT, LD, LDI, LDR, LEA, JSR and JMP leave every cell of
\* memory as it was, and ST, STI and STR change at most one cell.
C22_OnlyStoresWriteMemory ==
    [][/\ opCode(Fetched) \in {OP_BR, OP_ADD, OP_AND, OP_NOT, OP_LD, OP_LDI,
                               OP_LDR, OP_LEA, OP_JSR, OP_JMP}
             => Differing(memory, memory') = {}
       /\ opCode(Fetched) \in {OP_ST, OP_STI, OP_STR}
             => Cardinality(Differing(memory, memory')) <= 1]_vars

\* a store has changed a cell outside the image
C22_Witness ==
    /\ steps = 2
    /\ opCode(instruction) = OP_STR
    /\ reg[1] = 65535
    /\ MemAt(memory, 0) = 65535
    /\ Cardinality(DOMAIN memory) = ProgLen + 1

\* the address that the store word ins, just executed, has written to
StoreTarget(ins) ==
    IF opCode(ins) = OP_STR
    THEN (reg[Src1(ins)] + SignedField(ins % 64, 6) + MAX_MEMORY) % MAX_MEMORY
    ELSE (reg[R_PC] + SignedField(ins % 512, 9) + MAX_MEMORY) % MAX_MEMORY

\* C23: when the instruction just executed is a store that wrote to the
\* address PC now holds, the next fetch reads the word it stored.
C23_StoreVisibleToNextFetch ==
    [][(/\ steps > 0
        /\ opCode(instruction) \in {OP_ST, OP_STI, OP_STR}
        /\ StoreTarget(instruction) = reg[R_PC])
          => instruction' = reg[Dst(instruction)]]_vars

\* ADD R1, R1, #3 and ST R1, #0 at 0x3001: the third fetch, at 0x3002, has
\* read the 3 just stored there
C23_Witness ==
    /\ steps = 3
    /\ instruction = 3
    /\ MemAt(memory, PC_START + 1) = 12800
    /\ reg[R_PC] = PC_START + 3

C25_ExtendSignValue ==
    (ext.returned /\ ext.bitCount \in {5, 6, 9, 11}) =>
        LET n == ext.bitCount
            x == ext.v % (2 ^ n)
        IN  ext.result = IF (x \div (2 ^ (n - 1))) % 2 = 1
                         THEN x + 65536 - 2 ^ n
                         ELSE x

\* the 11-bit field with every bit set has been extended to 0xFFFF
C25_Witness ==
    /\ ext.returned
    /\ ext.bitCount = 11
    /\ ext.v = 2047
    /\ ext.result = 65535

\* the address PC + offset9 of the instruction being fetched, modulo 65536
PcRelative == (reg[R_PC] + 1 + SignedField(Fetched % 512, 9) + MAX_MEMORY) % MAX_MEMORY

\* the address reg[base] + offset6 of the instruction being fetched, modulo 65536
BaseRelative == (reg[Src1(Fetched)] + SignedField(Fetched % 64, 6) + MAX_MEMORY) % MAX_MEMORY

\* C26: the effective address of LD, ST and LEA is PC + offset9 and that of
\* LDR and STR is reg[base] + offset6, both modulo 65536, and no cell
\* outside 0 .. 65535 is written.
C26_AddressesWrap ==
    [][/\ opCode(Fetched) = OP_LD => reg'[Dst(Fetched)] = MemAt(memory, PcRelative)
       /\ opCode(Fetched) = OP_ST => MemAt(memory', PcRelative) = reg[Dst(Fetched)]
       /\ opCode(Fetched) = OP_LEA => reg'[Dst(Fetched)] = PcRelative
       /\ opCode(Fetched) = OP_LDR => reg'[Dst(Fetched)] = MemAt(memory, BaseRelative)
       /\ opCode(Fetched) = OP_STR => MemAt(memory', BaseRelative) = reg[Dst(Fetched)]
       /\ DOMAIN memory' \subseteq 0 .. 65535]_vars

\* NOT R1, R0 and STR R1, R1, #1: base 0xFFFF with offset +1 has written cell 0
C26_Witness ==
    /\ steps = 2
    /\ instruction = 29249
    /\ reg[1] = 65535
    /\ MemAt(memory, 0) = 65535
    /\ DOMAIN memory \subseteq 0 .. 65535

\* C27: PUTS terminates having read only cells at addresses 0 .. 65535,
\* whatever R0 and the memory are: the routine is not cut short, and the
\* zero cell that ends its output, the cell after the last one printed, is a
\* cell of memory.
C27_PutsStaysInMemory ==
    [][(TrapVect(instruction) = TRAP_PUTS /\ steps = 0 /\ steps' = 1) =>
         LET last == reg[R_R0] + (Len(out') - Len(out))
         IN  /\ ~aborted'
             /\ last <= 65535
             /\ MemAt(memory, last) = 0]_vars

====
